---------------------------- MODULE Spec2Model ----------------------------
(***************************************************************************)
(* A model of the Study Session subsystem of Uni-SpacesO                   *)
(* (src/study_session/views.py, src/study_session/models.py): presence     *)
(* tracking, the polled chat log, the AI schedule planner with its         *)
(* response parsing, the schedule store and the friend directory.          *)
(*                                                                         *)
(* Every view is one action: a request is handled from its first line to   *)
(* its response.  Time is in seconds.  `resp' is the response of the last  *)
(* request handled, with the request's inputs; fields marked "ghost" are   *)
(* not sent to the client, they record what the handler read.              *)
(*                                                                         *)
(* Optional model fields (null=True) are sequences: << >> is None and      *)
(* <<v>> is the value v.                                                   *)
(***************************************************************************)
EXTENDS Integers, Sequences, FiniteSets, Bags, TLC

VARIABLES
    now,          \* the server clock, seconds (timezone.now())
    rooms,        \* StudyRoom rows: the set of room ids that exist
    participants, \* RoomParticipant rows, in id order (row i has id i)
    messages,     \* RoomMessage rows, in id order (row i has id i)
    blocks,       \* StudyBlock rows: a set of records, each with its id
    nextBlockId,  \* the next id the database gives a StudyBlock
    friendships,  \* Friendship rows: a bag of <<from_user, to_user>>
    resp,         \* the last response, with the request that led to it
    inflight,     \* the requests being handled whose steps interleave: slot -> request
    communities,  \* Community rows, in id order (row i has id i)
    memberships,  \* Membership rows: a set of <<user, community id>>
    client        \* the chat page of one user: what it has received from its polls

vars == <<now, rooms, participants, messages, blocks, nextBlockId, friendships, resp,
          inflight, communities, memberships, client>>

---------------------------------------------------------------------------
(* Bounds of the model *)

MaxMsgs == 2
Backlog == 49
MaxBlocks == 2
MaxItems == 2

(* Program constants *)

FreshnessWindow == 300
StudyingWindow == 60
PollCap == 50
SearchCap == 10

\* the usernames of the accounts (auth.User rows), by id; a text is a sequence of
\* characters
Usernames ==
    <<<<"a", "l", "i", "c", "e">>, <<"B", "o", "b">>, <<"c", "a", "r", "o", "l">>,
      <<"A", "n", "n">>, <<"d", "a", "n">>, <<"E", "v", "A">>, <<"f", "a", "y">>,
      <<"G", "a", "b">>, <<"h", "a", "l">>, <<"I", "a", "n">>, <<"j", "a", "n">>,
      <<"K", "a", "y">>>>
\* the accounts; every request below is by a logged-in user unless it says otherwise
Accounts == DOMAIN Usernames
\* the accounts whose friend requests are explored
Befrienders == {1, 2, 3}
\* the accounts whose study-room and planner requests are explored
Users == {1, 2}
GlobalRoom == 1
\* room_id values a request may carry: the Global Study Deck and an id no room has
RoomIds == {GlobalRoom, 2}
\* the instants at which the model observes the clock: they lie 10, 50, 60, 90,
\* 240, 290, 300 and 310 seconds apart, on both sides of the two windows
Instants == {0, 10, 20, 60, 70, 90, 300, 310, 320}
\* seconds that may pass between two clock reads of one handler
HandlerLag == {0, 10}
Contents == {"hi", "yo"}

Username(u) == Usernames[u]

Min(a, b) == IF a <= b THEN a ELSE b

---------------------------------------------------------------------------
(* Presence tracker and message log *)

\* an update that creates the row when the filter matches none
UpdateOrCreatePresence(ps, u, r, t) ==
    IF \E i \in DOMAIN ps : ps[i].user = u /\ ps[i].room = r
    THEN [i \in DOMAIN ps |->
             IF ps[i].user = u /\ ps[i].room = r
             THEN [ps[i] EXCEPT !.last_active = t, !.is_active = TRUE]
             ELSE ps[i]]
    ELSE Append(ps, [room |-> r, user |-> u, last_active |-> t, is_active |-> TRUE])

\* an update that also removes the rows that have aged out of the roster
UpdatePresencePurging(ps, u, r, t) ==
    SelectSeq([i \in DOMAIN ps |->
                  IF ps[i].user = u /\ ps[i].room = r
                  THEN [ps[i] EXCEPT !.last_active = t, !.is_active = TRUE]
                  ELSE ps[i]],
              LAMBDA p : p.last_active >= t - FreshnessWindow)

\* a poll that leaves the caller's presence as it was
UpdatePresenceSkipped(ps, u, r, t) == ps

\* RoomParticipant.objects.filter(user=u, room_id=r).update(last_active=t, is_active=True)
UpdatePresence(ps, u, r, t) ==
    [i \in DOMAIN ps |->
        IF ps[i].user = u /\ ps[i].room = r
        THEN [ps[i] EXCEPT !.last_active = t, !.is_active = TRUE]
        ELSE ps[i]]

\* a roster filter that forgets the freshness window
InRosterAnyAge(p, r, threshold) ==
    /\ p.room = r
    /\ p.is_active

\* the rows of filter(room_id=r, last_active__gte=threshold, is_active=True), by id
InRoster(p, r, threshold) ==
    /\ p.room = r
    /\ p.last_active >= threshold
    /\ p.is_active

ActiveIds(ps, r, threshold) ==
    {i \in DOMAIN ps : InRoster(ps[i], r, threshold)}

\* a status whose window includes its end
StatusOfInclusive(t, last_active) ==
    IF t - last_active <= StudyingWindow THEN "studying" ELSE "idle"

\* 'studying' if time_diff < 60 else 'idle'
StatusOf(t, last_active) ==
    IF t - last_active < StudyingWindow THEN "studying" ELSE "idle"

\* the ids of a set, ascending, as a sequence
RECURSIVE SetToSeq(_)
SetToSeq(S) ==
    IF S = {} THEN << >>
    ELSE LET m == CHOOSE x \in S : \A y \in S : x <= y
         IN  <<m>> \o SetToSeq(S \ {m})

\* the loop over active_participants: entry k is computed at clock read at[k]
CrewData(ps, ids, u, at) ==
    [k \in DOMAIN ids |->
        LET p == ps[ids[k]]
        IN  [id          |-> p.user,
             username    |-> Username(p.user),
             status      |-> StatusOf(at[k], p.last_active),
             is_me       |-> p.user = u,
             pid         |-> ids[k],          \* ghost: the row
             last_active |-> p.last_active,   \* ghost: the row's last_active as read
             at          |-> at[k]]]          \* ghost: the clock read of this entry

\* a timestamp shown as the time elapsed since the message
HHMMAgo(t) == <<((now - t) \div 3600) % 24, ((now - t) \div 60) % 60>>

\* m.timestamp.strftime('%H:%M')
HHMM(t) == <<(t \div 3600) % 24, (t \div 60) % 60>>

\* the rows of s with the timestamps ts[1], ts[2], ... in turn
RECURSIVE RowsByTimestamp(_, _)
RowsByTimestamp(s, ts) ==
    IF ts = << >> THEN << >>
    ELSE SelectSeq(s, LAMBDA m : m.timestamp = Head(ts)) \o RowsByTimestamp(s, Tail(ts))

\* order_by('timestamp'): ascending; rows of equal timestamp stay in id order
OrderByTimestamp(s) ==
    RowsByTimestamp(s, SetToSeq({s[i].timestamp : i \in DOMAIN s}))

\* a poll that looks at the messages of every room
NewerAnyRoom(m, r, last_msg_id) == m.id > last_msg_id

\* filter(room_id=r, id__gt=last_msg_id)
NewerInRoom(m, r, last_msg_id) == m.room = r /\ m.id > last_msg_id

\* a cap that keeps the latest rows instead of the earliest
CappedLatest(s) == SubSeq(s, Len(s) - Min(Len(s), PollCap) + 1, Len(s))

\* [:50]
Capped(s) == SubSeq(s, 1, Min(Len(s), PollCap))

\* filter(room_id=r, id__gt=last_msg_id).order_by('timestamp')[:50]
PollMessages(ms, r, last_msg_id) ==
    Capped(OrderByTimestamp(SelectSeq(ms, LAMBDA m : NewerInRoom(m, r, last_msg_id))))

MsgData(s) ==
    [k \in DOMAIN s |->
        [id        |-> s[k].id,
         user      |-> Username(s[k].user),
         content   |-> s[k].content,
         timestamp |-> HHMM(s[k].timestamp)]]

\* the clock reads of the crew loop: non-decreasing, starting at t
RECURSIVE ReadsFrom(_, _)
ReadsFrom(t, lags) ==
    IF lags = << >> THEN << >>
    ELSE <<t + lags[1]>> \o ReadsFrom(t + lags[1], Tail(lags))

LastRead(t, at) == IF at = << >> THEN t ELSE at[Len(at)]

\* study_room: get_or_create the Global Study Deck and the caller's participant row
StudyRoom(u) ==
    /\ rooms' = rooms \cup {GlobalRoom}
    /\ participants' =
         IF \E i \in DOMAIN participants :
                participants[i].room = GlobalRoom /\ participants[i].user = u
         THEN UpdatePresence(participants, u, GlobalRoom, now)
         ELSE Append(participants,
                     [room |-> GlobalRoom, user |-> u,
                      last_active |-> now, is_active |-> TRUE])
    /\ resp' = [op |-> "study_room", status |-> 200, user |-> u, room_id |-> GlobalRoom,
                touched_at |-> now]     \* ghost: the clock read of line 30
    /\ UNCHANGED <<now, messages, blocks, nextBlockId, friendships, inflight,
                   communities, memberships, client>>

\* get_room_data without a room_id
GetRoomDataNoRoom(u) ==
    /\ resp' = [op |-> "get_room_data", status |-> 400, user |-> u,
                error |-> "No room ID"]
    /\ UNCHANGED <<now, rooms, participants, messages, blocks, nextBlockId, friendships, inflight,
                   communities, memberships, client>>

\* get_room_data from its presence update on: t is the clock read the update
\* writes, d1 the time between the update and the threshold's clock read, lags[k]
\* the time before the k-th crew entry's clock read
RoomData(u, r, last_msg_id, t, d1, lags) ==
    LET ps        == UpdatePresence(participants, u, r, t)
        t2        == now + d1
        threshold == t2 - FreshnessWindow
        ids       == SetToSeq(ActiveIds(ps, r, threshold))
        at        == ReadsFrom(t2, lags)
    IN  /\ Len(lags) = Len(ids)
        /\ LastRead(t2, at) \in Instants
        /\ participants' = ps
        /\ now' = LastRead(t2, at)
        /\ resp' = [op |-> "get_room_data", status |-> 200, user |-> u,
                    room_id |-> r, last_msg_id |-> last_msg_id,
                    crew |-> CrewData(ps, ids, u, at),
                    messages |-> MsgData(PollMessages(messages, r, last_msg_id)),
                    touched_at |-> t,       \* ghost: the presence update's clock read
                    threshold_at |-> t2,    \* ghost: the threshold's clock read
                    \* ghost: the previous response was to the same poll
                    repeated |-> /\ resp.op = "get_room_data"
                                 /\ resp.status = 200
                                 /\ resp.room_id = r
                                 /\ resp.last_msg_id = last_msg_id]
        /\ UNCHANGED <<rooms, messages, blocks, nextBlockId, friendships,
                   communities, memberships, client>>

\* get_room_data, handled without another request in between
GetRoomDataAt(u, r, last_msg_id, d1, lags) ==
    /\ RoomData(u, r, last_msg_id, now, d1, lags)
    /\ UNCHANGED inflight

\* the number of crew entries of a poll whose update writes t and whose threshold
\* is read d1 from now
RosterSize(u, r, t, d1) ==
    Cardinality(ActiveIds(UpdatePresence(participants, u, r, t), r,
                          now + d1 - FreshnessWindow))

\* get_room_data, its clock reads apart by lags drawn from L
GetRoomData(u, r, last_msg_id, L) ==
    \E d1 \in L :
    \E lags \in [1..RosterSize(u, r, now, d1) -> L] :
        GetRoomDataAt(u, r, last_msg_id, d1, lags)

\* the values a request field may carry: << >> when the field is absent
\* a room_id that is truthy in Python: present and not 0
TruthyId(room_id) == room_id # << >> /\ room_id[1] # 0

\* a content that is truthy in Python: present and not the empty string
TruthyText(content) == content # << >> /\ content[1] # ""

\* a check for presence alone, which lets an empty content through
AcceptsPresent(room_id, content) == room_id # << >> /\ room_id[1] # 0 /\ content # << >>

\* if room_id and content
Accepts(room_id, content) == TruthyId(room_id) /\ TruthyText(content)

\* the response to a send_message that is refused
InvalidData(u, room_id, content) ==
    [op |-> "send_message", status |-> 400, user |-> u,
     room_id |-> room_id, content |-> content, body |-> "Invalid data"]

\* the response to a send_message whose insert succeeds (200) or is refused (500)
PostResponse(u, r, c) ==
    [op |-> "send_message", status |-> IF r \in rooms THEN 200 ELSE 500, user |-> u,
     room_id |-> <<r>>, content |-> <<c>>,
     body |-> IF r \in rooms THEN "ok" ELSE "IntegrityError"]

\* RoomMessage.objects.create(room_id=r, user=u, content=c) with timestamp t: the
\* row gets the next id; room is a ForeignKey, the insert of a room_id no
\* StudyRoom has is refused
CreateMessage(ms, u, r, c, t) ==
    IF r \in rooms
    THEN Append(ms, [id |-> Len(ms) + 1, room |-> r, user |-> u, content |-> c,
                     timestamp |-> t])
    ELSE ms

\* send_message, handled without another request in between
SendMessage(u, room_id, content, cap) ==
    /\ IF Accepts(room_id, content)
       THEN /\ Len(messages) < cap
            /\ messages' = CreateMessage(messages, u, room_id[1], content[1], now)
            /\ resp' = PostResponse(u, room_id[1], content[1])
       ELSE /\ messages' = messages
            /\ resp' = InvalidData(u, room_id, content)
    /\ UNCHANGED <<now, rooms, participants, blocks, nextBlockId, friendships, inflight,
                   communities, memberships, client>>

\* time passes between requests
Tick(t) ==
    /\ t > now
    /\ now' = t
    /\ UNCHANGED <<rooms, participants, messages, blocks, nextBlockId, friendships, resp, inflight,
                   communities, memberships, client>>

---------------------------------------------------------------------------
(* The planner's response text and its parsing.                            *)
(* A text is a sequence of characters.  A character is a backtick, a       *)
(* letter, a blank, a newline, a bracket, a comma, or a literal: one       *)
(* character of the model that stands for the text of one JSON object or   *)
(* number, which json.loads reads as a whole.                              *)

\* the backtick character
Backtick == "bq"
Fence == <<Backtick, Backtick, Backtick>>
FenceJson == Fence \o <<"j", "s", "o", "n">>

\* the JSON objects the literals stand for (Python dicts after json.loads)
ExamItem ==
    [title |-> "Exam", dayIndex |-> 4, startHour |-> 14, duration |-> 2, type |-> "fixed"]
\* a date string is a sequence of characters
DatedItem ==
    [title |-> "Project", date |-> <<"2", "0", "2", "5", "-", "0", "5", "-", "1", "5">>,
     startHour |-> 9, duration |-> 1, type |-> "fixed"]

ObjectLiterals == {"E", "S", "D", "T", "H", "U", "Y", "B", "F", "N", "R", "O"}
Literals == ObjectLiterals \cup {"5"}

ObjectOf(c) ==
    CASE c = "E" -> ExamItem
      [] c = "S" ->
             [title |-> "Study", dayIndex |-> 2, startHour |-> 10, duration |-> 2,
              type |-> "ai"]
      [] c = "D" -> DatedItem
      \* items without title, startHour, duration, type
      [] c = "T" -> [dayIndex |-> 4, startHour |-> 14, duration |-> 2, type |-> "fixed"]
      [] c = "H" -> [title |-> "Exam", dayIndex |-> 4, duration |-> 2, type |-> "fixed"]
      [] c = "U" -> [title |-> "Exam", dayIndex |-> 4, startHour |-> 14, type |-> "fixed"]
      [] c = "Y" -> [title |-> "Exam", dayIndex |-> 4, startHour |-> 14, duration |-> 2]
      \* items with every required key whose date is no date: "next Fri", 2025-02-30
      [] c = "B" -> [DatedItem EXCEPT !.date = <<"n", "e", "x", "t", " ", "F", "r", "i">>]
      [] c = "F" -> [DatedItem EXCEPT
                         !.date = <<"2", "0", "2", "5", "-", "0", "2", "-", "3", "0">>]
      \* an item with every required key and neither date nor dayIndex
      [] c = "N" -> [title |-> "Read", startHour |-> 9, duration |-> 1, type |-> "ai"]
      \* an item with every required key whose hour and duration are out of range
      [] c = "R" -> [title |-> "Late", dayIndex |-> 0, startHour |-> 25, duration |-> 0,
                     type |-> "ai"]
      \* the empty JSON object: a dict without keys
      [] c = "O" -> [k \in {} |-> 0]

IsWhitespace(c) == c \in {" ", "\n"}

\* text.startswith(prefix)
StartsWith(text, prefix) ==
    /\ Len(text) >= Len(prefix)
    /\ SubSeq(text, 1, Len(prefix)) = prefix

\* text.endswith(suffix)
EndsWith(text, suffix) ==
    /\ Len(text) >= Len(suffix)
    /\ SubSeq(text, Len(text) - Len(suffix) + 1, Len(text)) = suffix

\* a cleaner that knows the fence but not its json tag
StripLeadingFencePlain(text) ==
    IF StartsWith(text, Fence) THEN SubSeq(text, Len(Fence) + 1, Len(text)) ELSE text

\* if text.startswith(fence + 'json'): text = text[7:]
\* elif text.startswith(fence): text = text[3:]
StripLeadingFence(text) ==
    IF StartsWith(text, FenceJson) THEN SubSeq(text, Len(FenceJson) + 1, Len(text))
    ELSE IF StartsWith(text, Fence) THEN SubSeq(text, Len(Fence) + 1, Len(text))
    ELSE text

\* if text.endswith(fence): text = text[:-3]
StripTrailingFence(text) ==
    IF EndsWith(text, Fence) THEN SubSeq(text, 1, Len(text) - Len(Fence))
    ELSE text

CleanFences(text) == StripTrailingFence(StripLeadingFence(text))

RECURSIVE LStrip(_)
LStrip(text) ==
    IF text # << >> /\ IsWhitespace(Head(text)) THEN LStrip(Tail(text)) ELSE text

RECURSIVE RStrip(_)
RStrip(text) ==
    IF text # << >> /\ IsWhitespace(text[Len(text)])
    THEN RStrip(SubSeq(text, 1, Len(text) - 1))
    ELSE text

Strip(text) == RStrip(LStrip(text))

\* the pieces of a text between its commas
RECURSIVE SplitCommas(_, _)
SplitCommas(text, piece) ==
    IF text = << >> THEN <<piece>>
    ELSE IF Head(text) = "," THEN <<piece>> \o SplitCommas(Tail(text), << >>)
    ELSE SplitCommas(Tail(text), Append(piece, Head(text)))

\* one array element: a single literal, blanks around it allowed
IsElement(piece) == Len(Strip(piece)) = 1 /\ Strip(piece)[1] \in Literals

ParseError == [ok |-> FALSE, kind |-> "error", elems |-> << >>]

\* json.loads(text): an array of literals, or a single object or number; anything
\* else (a backtick, a letter, an unclosed bracket, a stray comma, no text) is a
\* JSONDecodeError
JsonLoads(text) ==
    LET s == Strip(text)
    IN  IF s = << >> THEN ParseError
        ELSE IF Len(s) = 1 /\ s[1] \in ObjectLiterals
             THEN [ok |-> TRUE, kind |-> "object", elems |-> s]
        ELSE IF Len(s) = 1 /\ s[1] \in Literals \ ObjectLiterals
             THEN [ok |-> TRUE, kind |-> "number", elems |-> s]
        ELSE IF Len(s) >= 2 /\ s[1] = "[" /\ s[Len(s)] = "]"
             THEN LET inner  == SubSeq(s, 2, Len(s) - 1)
                      pieces == SplitCommas(inner, << >>)
                  IN  IF Strip(inner) = << >>
                      THEN [ok |-> TRUE, kind |-> "array", elems |-> << >>]
                      ELSE IF \A k \in DOMAIN pieces : IsElement(pieces[k])
                      THEN [ok |-> TRUE, kind |-> "array",
                            elems |-> [k \in DOMAIN pieces |-> Strip(pieces[k])[1]]]
                      ELSE ParseError
        ELSE ParseError

---------------------------------------------------------------------------
(* The planner and the schedule store *)

RequiredKeys == <<"title", "startHour", "duration", "type">>

\* item.get(key): None when the key is absent
Get(item, key) == IF key \in DOMAIN item THEN <<item[key]>> ELSE << >>

\* date_val = None; if item.get('date'): date_val = item['date']
DateVal(item) ==
    IF "date" \in DOMAIN item /\ item["date"] # << >> THEN <<item["date"]>> ELSE << >>

Digits == <<"0", "1", "2", "3", "4", "5", "6", "7", "8", "9">>
IsDigit(c) == \E d \in DOMAIN Digits : Digits[d] = c
DigitVal(c) == (CHOOSE d \in DOMAIN Digits : Digits[d] = c) - 1

\* the number a text of digits reads as
RECURSIVE Number(_)
Number(text) ==
    IF text = << >> THEN 0
    ELSE 10 * Number(SubSeq(text, 1, Len(text) - 1)) + DigitVal(text[Len(text)])

\* the pieces of a text between its dashes
RECURSIVE SplitDashes(_, _)
SplitDashes(text, piece) ==
    IF text = << >> THEN <<piece>>
    ELSE IF Head(text) = "-" THEN <<piece>> \o SplitDashes(Tail(text), << >>)
    ELSE SplitDashes(Tail(text), Append(piece, Head(text)))

\* the days of month m of year y
DaysIn(y, m) ==
    IF m = 2 THEN (IF (y % 4 = 0 /\ y % 100 # 0) \/ y % 400 = 0 THEN 29 ELSE 28)
    ELSE IF m \in {4, 6, 9, 11} THEN 30 ELSE 31

\* DateField.to_python of a string: the date of a text YYYY-M-D, << >> when the
\* text has another form or names no day (ValidationError)
ParseDate(text) ==
    LET f == SplitDashes(text, << >>)
    IN  IF /\ Len(f) = 3
           /\ Len(f[1]) = 4 /\ Len(f[2]) \in {1, 2} /\ Len(f[3]) \in {1, 2}
           /\ \A k \in 1..3 : \A i \in DOMAIN f[k] : IsDigit(f[k][i])
           /\ Number(f[1]) >= 1
           /\ Number(f[2]) \in 1..12
           /\ Number(f[3]) \in 1..DaysIn(Number(f[1]), Number(f[2]))
        THEN <<[year |-> Number(f[1]), month |-> Number(f[2]), day |-> Number(f[3])]>>
        ELSE << >>

\* a date field can be written: None, or a string that is a date
DateWritable(field) == field = << >> \/ ParseDate(field[1]) # << >>

\* what bulk_create raises while it prepares the rows: nothing (""), or the
\* ValidationError of the first date field that is no date
StorageError(new_blocks) ==
    IF \A k \in DOMAIN new_blocks :
           /\ DateWritable(new_blocks[k].date)
           /\ DateWritable(new_blocks[k].start_date)
           /\ DateWritable(new_blocks[k].end_date)
    THEN ""
    ELSE "ValidationError: invalid date"

\* a block built with start hour and duration taken from each other's key
NewBlockSwapped(u, item, t) ==
    [user       |-> u,
     title      |-> item["title"],
     day_index  |-> Get(item, "dayIndex"),
     date       |-> DateVal(item),
     start_date |-> Get(item, "startDate"),
     end_date   |-> Get(item, "endDate"),
     start_hour |-> item["duration"],
     duration   |-> item["startHour"],
     block_type |-> item["type"],
     created_at |-> t]

\* StudyBlock(user=request.user, title=item['title'], ...), not yet saved
NewBlock(u, item, t) ==
    [user       |-> u,
     title      |-> item["title"],
     day_index  |-> Get(item, "dayIndex"),
     date       |-> DateVal(item),
     start_date |-> Get(item, "startDate"),
     end_date   |-> Get(item, "endDate"),
     start_hour |-> item["startHour"],
     duration   |-> item["duration"],
     block_type |-> item["type"],
     created_at |-> t]

\* what building the block of element c raises: nothing ("") for an object with
\* every required key, else the first exception of the loop body
ItemError(c) ==
    IF c \notin ObjectLiterals THEN "AttributeError: get"
    ELSE LET missing == {k \in DOMAIN RequiredKeys :
                             RequiredKeys[k] \notin DOMAIN ObjectOf(c)}
         IN  IF missing = {} THEN ""
             ELSE "KeyError: " \o RequiredKeys[CHOOSE k \in missing :
                                                   \A j \in missing : k <= j]

\* the exception of the loop `for item in schedule`: that of its first failing item
RECURSIVE LoopError(_)
LoopError(elems) ==
    IF elems = << >> THEN ""
    ELSE IF ItemError(Head(elems)) # "" THEN ItemError(Head(elems))
    ELSE LoopError(Tail(elems))

\* the outcome of a response that cannot be planned
Failed(error) == [error |-> error, schedule |-> << >>, new_blocks |-> << >>]

\* the outcome of the loop over the items elems, and of preparing their rows
PlanItems(u, elems, t) ==
    LET new_blocks == [k \in DOMAIN elems |-> NewBlock(u, ObjectOf(elems[k]), t)]
    IN  IF LoopError(elems) # "" THEN Failed(LoopError(elems))
        ELSE IF StorageError(new_blocks) # "" THEN Failed(StorageError(new_blocks))
        ELSE [error |-> "",
              schedule |-> [k \in DOMAIN elems |-> ObjectOf(elems[k])],
              new_blocks |-> new_blocks]

\* a plan that takes an unparseable response for an empty schedule
PlanSwallow(u, text, t) ==
    LET parsed == JsonLoads(CleanFences(text))
    IN  IF ~parsed.ok \/ parsed.kind # "array" THEN Failed("")
        ELSE PlanItems(u, parsed.elems, t)

\* from response.text to new_blocks: [error, schedule, new_blocks]
Plan(u, text, t) ==
    LET parsed == JsonLoads(CleanFences(text))
    IN  IF ~parsed.ok THEN Failed("JSONDecodeError")
        ELSE IF parsed.kind = "number" THEN Failed("TypeError: not iterable")
        ELSE IF parsed.kind = "object"
        \* iterating a dict yields its keys, strings, which have no get(); a dict
        \* without keys yields nothing, and the loop body never runs
        THEN IF DOMAIN ObjectOf(parsed.elems[1]) = {}
             THEN Failed("")
             ELSE Failed("AttributeError: get")
        ELSE PlanItems(u, parsed.elems, t)

\* the value a date field is stored as
StoredDate(field) == IF field = << >> THEN << >> ELSE ParseDate(field[1])

\* an insert that skips the rows the owner has already, whatever their id
BulkCreateDistinct(new_blocks, first_id) ==
    {[id |-> first_id + k - 1] @@
     [new_blocks[k] EXCEPT !.date = StoredDate(@), !.start_date = StoredDate(@),
                           !.end_date = StoredDate(@)] :
        k \in {j \in DOMAIN new_blocks :
                  ~\E b \in blocks : /\ b.user = new_blocks[j].user
                                      /\ b.title = new_blocks[j].title
                                      /\ b.day_index = new_blocks[j].day_index
                                      /\ b.start_hour = new_blocks[j].start_hour}}

\* StudyBlock.objects.bulk_create(new_blocks): one insert, ids in list order
BulkCreate(new_blocks, first_id) ==
    {[id |-> first_id + k - 1] @@
     [new_blocks[k] EXCEPT !.date = StoredDate(@), !.start_date = StoredDate(@),
                           !.end_date = StoredDate(@)] : k \in DOMAIN new_blocks}

\* the request bodies: no JSON, a JSON list, and JSON objects without a
\* command, with an empty one and with a command
EmptyCommandBody == [kind |-> "object", command |-> <<"">>]
CommandBody == [kind |-> "object", command |-> <<"Exam Friday 2pm">>]
Bodies ==
    {[kind |-> "unparseable", command |-> << >>],
     [kind |-> "array", command |-> << >>],
     [kind |-> "object", command |-> << >>],
     EmptyCommandBody, CommandBody}

\* data = json.loads(request.body); data.get(...) succeeds on a JSON object only
IsObject(body) == body.kind = "object"

\* command = data.get('command', '')
CommandOf(body) == IF body.command = << >> THEN "" ELSE body.command[1]

\* a check for the key alone
HasCommandKey(body) == body.command # << >>

\* the negation of `not command'
HasCommand(body) == CommandOf(body) # ""

\* navigator_command whose body is no JSON object: lines 119-120 raise
NavigatorCommandBadBody(u, body) ==
    /\ ~IsObject(body)
    /\ resp' = [op |-> "navigator_command", status |-> 500, user |-> u, body |-> body,
                external_calls |-> 0,
                error |-> IF body.kind = "array" THEN "AttributeError: get"
                          ELSE "JSONDecodeError"]
    /\ UNCHANGED <<now, rooms, participants, messages, blocks, nextBlockId, friendships, inflight,
                   communities, memberships, client>>

\* navigator_command with an empty or absent command
NavigatorCommandEmpty(u, body) ==
    /\ IsObject(body)
    /\ ~HasCommand(body)
    /\ resp' = [op |-> "navigator_command", status |-> 400, user |-> u, body |-> body,
                external_calls |-> 0,
                error |-> "No command provided"]
    /\ UNCHANGED <<now, rooms, participants, messages, blocks, nextBlockId, friendships, inflight,
                   communities, memberships, client>>

\* navigator_command whose call of the external model raises
NavigatorCommandRaises(u, body) ==
    /\ IsObject(body)
    /\ HasCommand(body)
    /\ resp' = [op |-> "navigator_command", status |-> 500, user |-> u, body |-> body,
                external_calls |-> 1,
                error |-> "ExternalServiceError"]
    /\ UNCHANGED <<now, rooms, participants, messages, blocks, nextBlockId, friendships, inflight,
                   communities, memberships, client>>

\* the items of a list before its first failing one
RECURSIVE GoodPrefix(_)
GoodPrefix(elems) ==
    IF elems = << >> \/ ItemError(Head(elems)) # "" THEN << >>
    ELSE <<Head(elems)>> \o GoodPrefix(Tail(elems))

\* the answer to a command whose external call returned text
PlanResponse(u, body, text, plan, calls) ==
    IF plan.error # ""
    THEN [op |-> "navigator_command", status |-> 500, user |-> u, body |-> body,
          external_calls |-> calls, text |-> text, error |-> plan.error]
    ELSE [op |-> "navigator_command", status |-> 200, user |-> u, body |-> body,
          external_calls |-> calls, text |-> text, schedule |-> plan.schedule,
          reply |-> "Trajectory calculated. Schedule updated."]

\* a planner that saves each block as soon as it is built
NavigatorCommandSaveEach(u, body, text) ==
    LET parsed == JsonLoads(CleanFences(text))
        plan   == Plan(u, text, now)
        saved  == IF parsed.ok /\ parsed.kind = "array"
                  THEN [k \in DOMAIN GoodPrefix(parsed.elems) |->
                           NewBlock(u, ObjectOf(parsed.elems[k]), now)]
                  ELSE << >>
    IN  /\ IsObject(body)
        /\ HasCommand(body)
        /\ nextBlockId + Len(saved) - 1 <= MaxBlocks
        /\ blocks' = blocks \cup BulkCreate(saved, nextBlockId)
        /\ nextBlockId' = nextBlockId + Len(saved)
        /\ resp' = PlanResponse(u, body, text, plan, 1)
        /\ UNCHANGED <<now, rooms, participants, messages, friendships, inflight,
                   communities, memberships, client>>

\* a planner that asks the external model again when the answer cannot be used
NavigatorCommandRetry(u, body, text) ==
    LET plan == Plan(u, text, now)
    IN  /\ IsObject(body)
        /\ HasCommand(body)
        /\ nextBlockId + Len(plan.new_blocks) - 1 <= MaxBlocks
        /\ blocks' = blocks \cup BulkCreate(plan.new_blocks, nextBlockId)
        /\ nextBlockId' = nextBlockId + Len(plan.new_blocks)
        /\ resp' = PlanResponse(u, body, text, plan, IF plan.error # "" THEN 2 ELSE 1)
        /\ UNCHANGED <<now, rooms, participants, messages, friendships, inflight,
                   communities, memberships, client>>

\* a planner that puts the new schedule in the place of the caller's old one
NavigatorCommandReplan(u, body, text) ==
    LET plan == Plan(u, text, now)
    IN  /\ IsObject(body)
        /\ HasCommand(body)
        /\ nextBlockId + Len(plan.new_blocks) - 1 <= MaxBlocks
        /\ blocks' = IF plan.error # "" THEN blocks
                      ELSE {b \in blocks : b.user # u}
                               \cup BulkCreate(plan.new_blocks, nextBlockId)
        /\ nextBlockId' = nextBlockId + Len(plan.new_blocks)
        /\ resp' = PlanResponse(u, body, text, plan, 1)
        /\ UNCHANGED <<now, rooms, participants, messages, friendships, inflight,
                   communities, memberships, client>>

\* navigator_command whose call of the external model (line 159, once) returns
\* text: blocks are stored by the one bulk_create, after the loop
NavigatorCommand(u, body, text) ==
    LET plan == Plan(u, text, now)
    IN  /\ IsObject(body)
        /\ HasCommand(body)
        /\ nextBlockId + Len(plan.new_blocks) - 1 <= MaxBlocks
        /\ blocks' = blocks \cup BulkCreate(plan.new_blocks, nextBlockId)
        /\ nextBlockId' = nextBlockId + Len(plan.new_blocks)
        /\ resp' = PlanResponse(u, body, text, plan, 1)
        /\ UNCHANGED <<now, rooms, participants, messages, friendships, inflight,
                   communities, memberships, client>>

\* a delete that looks the block up by id alone
DeleteStudyBlockAnyOwner(u, block_id) ==
    LET found == {b \in blocks : b.id = block_id}
    IN  /\ IF found # {}
           THEN /\ blocks' = blocks \ found
                /\ resp' = [op |-> "delete_study_block", status |-> 200, user |-> u,
                            block_id |-> block_id, success |-> TRUE]
           ELSE /\ blocks' = blocks
                /\ resp' = [op |-> "delete_study_block", status |-> 404, user |-> u,
                            block_id |-> block_id, success |-> FALSE]
        /\ UNCHANGED <<now, rooms, participants, messages, nextBlockId, friendships, inflight,
                   communities, memberships, client>>

\* delete_study_block: StudyBlock.objects.get(id=block_id, user=request.user).delete()
DeleteStudyBlock(u, block_id) ==
    LET found == {b \in blocks : b.id = block_id /\ b.user = u}
    IN  /\ IF found # {}
           THEN /\ blocks' = blocks \ found
                /\ resp' = [op |-> "delete_study_block", status |-> 200, user |-> u,
                            block_id |-> block_id, success |-> TRUE]
           ELSE /\ blocks' = blocks
                /\ resp' = [op |-> "delete_study_block", status |-> 404, user |-> u,
                            block_id |-> block_id, success |-> FALSE]
        /\ UNCHANGED <<now, rooms, participants, messages, nextBlockId, friendships, inflight,
                   communities, memberships, client>>

(* The responses of the external model the planner is explored with *)

RECURSIVE JoinCommas(_)
JoinCommas(elems) ==
    IF elems = << >> THEN << >>
    ELSE IF Len(elems) = 1 THEN <<elems[1]>>
    ELSE <<elems[1], ",">> \o JoinCommas(Tail(elems))

\* the text of a JSON array
ArrayText(elems) == <<"[">> \o JoinCommas(elems) \o <<"]">>

ValidLiterals == {"E", "D"}
InvalidLiterals == {"T", "H", "U", "Y", "5"}

\* the arrays of up to MaxItems complete items
ValidArrays == UNION {[1..n -> ValidLiterals] : n \in 0..MaxItems}

\* s with x put in at position k
InsertAt(s, k, x) == SubSeq(s, 1, k - 1) \o <<x>> \o SubSeq(s, k, Len(s))

\* the arrays of up to MaxItems items of which one is incomplete or no object
InvalidArrays ==
    UNION {{InsertAt(v, k, b) : k \in 1..(Len(v) + 1), b \in InvalidLiterals} :
              v \in UNION {[1..n -> ValidLiterals] : n \in 0..(MaxItems - 1)}}

\* texts that are no JSON: unclosed, a stray comma, a stray bracket, empty, prose
MalformedTexts ==
    {<<"[", "E">>, <<"[", "E", ",", "]">>, <<"E", "]">>, << >>, <<"n", "o">>}

\* arrays of complete items of which one has a date that is no date
BadDateArrays == {<<"B">>, <<"E", "B">>, <<"F", "D">>}

Payloads ==
    {ArrayText(a) : a \in ValidArrays \cup InvalidArrays \cup BadDateArrays}
        \cup MalformedTexts \cup {<<"E">>, <<"5">>, <<"O">>}

\* how the external model wraps its answer: <<before, after>>
Bare == <<<< >>, << >>>>
FencedJson == <<FenceJson \o <<"\n">>, <<"\n">> \o Fence>>
FencedPlain == <<Fence \o <<"\n">>, <<"\n">> \o Fence>>
FencedTight == <<FenceJson, Fence>>
\* also a fence that is not closed, and one that a newline follows
Wrappers ==
    {Bare, FencedJson, FencedPlain, FencedTight,
     <<FenceJson \o <<"\n">>, << >>>>,
     <<FenceJson \o <<"\n">>, <<"\n">> \o Fence \o <<"\n">>>>}

Wrap(w, payload) == w[1] \o payload \o w[2]

\* every wrapping of every valid array; the other payloads bare and fenced
ResponseTexts ==
    {Wrap(w, ArrayText(a)) : w \in Wrappers, a \in ValidArrays}
        \cup {Wrap(w, p) : w \in {Bare, FencedJson}, p \in Payloads}

---------------------------------------------------------------------------
(* The friend directory.  accounts.models.Friendship is imported by the    *)
(* views but is not among the source files; its rows are modelled from the *)
(* specification's data model: directed edges (from_user, to_user).        *)

\* the number of Friendship rows from u to f
EdgeCount(fs, u, f) == CopiesIn(<<u, f>>, fs)

\* a plain create: one more row whatever the rows there are
CreateEdge(fs, u, f) == fs (+) SetToBag({<<u, f>>})

\* Friendship.objects.get_or_create(from_user=u, to_user=f): the rows after it
GetOrCreateEdge(fs, u, f) ==
    IF EdgeCount(fs, u, f) = 0 THEN fs (+) SetToBag({<<u, f>>}) ELSE fs

\* the user_id of a request body: << >> when absent (None), else <<text>>, the
\* characters of a JSON number or string
IsNumeric(text) == text # << >> /\ \A i \in DOMAIN text : IsDigit(text[i])

\* User.objects.get(id=friend_id) finds a user: the field is the id of an account
Resolves(field) ==
    /\ field # << >>
    /\ IsNumeric(field[1])
    /\ Number(field[1]) \in Accounts

\* Friendship.objects.filter(from_user=u, to_user=f).exists()
IsFriend(fs, u, f) == EdgeCount(fs, u, f) > 0

\* an add that befriends both ways
AddFriendMutual(u, field) ==
    LET friend_id == Number(field[1])
    IN  /\ Resolves(field)
        /\ friendships' = GetOrCreateEdge(GetOrCreateEdge(friendships, u, friend_id),
                                          friend_id, u)
        /\ resp' = [op |-> "add_friend", status |-> 200, user |-> u, field |-> field,
                    user_id |-> friend_id, body |-> "ok",
                    created |-> EdgeCount(friendships, u, friend_id) = 0]
        /\ UNCHANGED <<now, rooms, participants, messages, blocks, nextBlockId, inflight,
                   communities, memberships, client>>

\* add_friend for a user_id that is a user's
AddFriend(u, field) ==
    LET friend_id == Number(field[1])
    IN  /\ Resolves(field)
        /\ IF EdgeCount(friendships, u, friend_id) <= 1
           THEN /\ friendships' = GetOrCreateEdge(friendships, u, friend_id)
                /\ resp' = [op |-> "add_friend", status |-> 200, user |-> u,
                            field |-> field, user_id |-> friend_id, body |-> "ok",
                            \* ghost: get_or_create's second result
                            created |-> EdgeCount(friendships, u, friend_id) = 0]
           \* get() finds several rows: MultipleObjectsReturned, which is not caught
           ELSE /\ friendships' = friendships
                /\ resp' = [op |-> "add_friend", status |-> 500, user |-> u,
                            field |-> field, user_id |-> friend_id,
                            body |-> "MultipleObjectsReturned"]
        /\ UNCHANGED <<now, rooms, participants, messages, blocks, nextBlockId, inflight,
                   communities, memberships, client>>

\* add_friend for a user_id that is absent (get(id=None)) or a number that is
\* no user's id: User.DoesNotExist
AddFriendNotFound(u, field) ==
    /\ IF field = << >> THEN TRUE
       ELSE IsNumeric(field[1]) /\ Number(field[1]) \notin Accounts
    /\ resp' = [op |-> "add_friend", status |-> 404, user |-> u, field |-> field,
                body |-> "User not found"]
    /\ UNCHANGED <<now, rooms, participants, messages, blocks, nextBlockId, friendships, inflight,
                   communities, memberships, client>>

\* add_friend for a user_id that is no number: the lookup raises ValueError,
\* which is not caught
AddFriendBadId(u, field) ==
    /\ field # << >>
    /\ ~IsNumeric(field[1])
    /\ resp' = [op |-> "add_friend", status |-> 500, user |-> u, field |-> field,
                body |-> "ValueError"]
    /\ UNCHANGED <<now, rooms, participants, messages, blocks, nextBlockId, friendships, inflight,
                   communities, memberships, client>>

\* the friends list of u: one entry per row from u, each 'offline'
FriendsOf(fs, u) ==
    BagOfAll(LAMBDA e : [id |-> e[2], username |-> Username(e[2]), status |-> "offline"],
             [e \in {x \in BagToSet(fs) : x[1] = u} |-> fs[e]])

\* get_friends: the targets of the caller's rows, each 'offline'
GetFriends(u) ==
    /\ resp' = [op |-> "get_friends", status |-> 200, user |-> u,
                friends |-> FriendsOf(friendships, u)]
    /\ UNCHANGED <<now, rooms, participants, messages, blocks, nextBlockId, friendships, inflight,
                   communities, memberships, client>>

\* the q parameters a search may carry: none, the empty text, texts in either
\* case that many, some, one and no username contain
Queries ==
    {<< >>, <<<< >>>>, <<<<"a">>>>, <<<<"A">>>>, <<<<"A", "N">>>>, <<<<"o", "B">>>>,
     <<<<"z">>>>}

\* a text with its capital letters turned into small ones
Lower(text) ==
    LET upper == <<"A", "B", "C", "D", "E", "F", "G", "H", "I", "J", "K", "L", "M",
                   "N", "O", "P", "Q", "R", "S", "T", "U", "V", "W", "X", "Y", "Z">>
        lower == <<"a", "b", "c", "d", "e", "f", "g", "h", "i", "j", "k", "l", "m",
                   "n", "o", "p", "q", "r", "s", "t", "u", "v", "w", "x", "y", "z">>
    IN  [i \in DOMAIN text |->
            IF \E k \in DOMAIN upper : upper[k] = text[i]
            THEN lower[CHOOSE k \in DOMAIN upper : upper[k] = text[i]]
            ELSE text[i]]

\* username__icontains=q: q is a part of the name, the case of letters set aside
IContains(name, q) ==
    LET n == Lower(name)
        t == Lower(q)
    IN  \E i \in 1..(Len(n) - Len(t) + 1) : SubSeq(n, i, i + Len(t) - 1) = t

\* filter(username__icontains=q), for each text a search may carry
Matching ==
    [q \in {query[1] : query \in Queries \ {<< >>}} |->
        {x \in Accounts : IContains(Username(x), q)}]

\* a search that leaves the searcher among the users found
CandidatesWithSelf(u, q) == Matching[q]

\* User.objects.filter(username__icontains=q).exclude(id=u)
Candidates(u, q) == Matching[q] \ {u}

\* [:10] of a query without an order: the database picks which rows, up to
\* SearchCap of them
RECURSIVE Page(_)
Page(S) ==
    IF Cardinality(S) <= SearchCap THEN {S} ELSE UNION {Page(S \ {x}) : x \in S}

\* search_users: query is the q parameter, << >> when absent; the list of the
\* users found, whose order the query leaves to the database, is a set here
SearchUsers(u, query) ==
    LET q == IF query = << >> THEN << >> ELSE query[1]
    IN  /\ IF Len(q) < 1
           THEN resp' = [op |-> "search_users", status |-> 200, user |-> u,
                         query |-> query, users |-> {}]
           ELSE \E found \in Page(Candidates(u, q)) :
                    resp' = [op |-> "search_users", status |-> 200, user |-> u,
                             query |-> query,
                             users |-> {[id |-> x,
                                         username |-> Username(x),
                                         is_friend |-> IsFriend(friendships, u, x)] :
                                            x \in found}]
        /\ UNCHANGED <<now, rooms, participants, messages, blocks, nextBlockId, friendships, inflight,
                   communities, memberships, client>>

NoResponse == [op |-> "none", status |-> 0]

\* the slots of the requests whose steps interleave (two workers of the server)
Slots == {1, 2}
NoRequest == [pc |-> "free"]

\* a page that has polled nothing yet: its watermark and the ids it was sent
NoClient == [last_msg_id |-> 0, received |-> << >>]

InitStores ==
    /\ blocks = {}
    /\ nextBlockId = 1
    /\ friendships = EmptyBag
    /\ resp = NoResponse
    /\ inflight = [s \in Slots |-> NoRequest]
    /\ communities = << >>
    /\ memberships = {}
    /\ client = NoClient

Init ==
    /\ now = 0
    /\ rooms = {}
    /\ participants = << >>
    /\ messages = << >>
    /\ InitStores

\* the presence tracker: visits, polls and the clock
NextPresence ==
    \/ \E u \in Users : StudyRoom(u)
    \/ \E u \in Users : GetRoomDataNoRoom(u)
    \/ \E u \in Users, r \in RoomIds : GetRoomData(u, r, 0, HandlerLag)
    \/ \E t \in Instants : Tick(t)

SpecPresence == Init /\ [][NextPresence]_vars

\* a participant row of every user, as left by a visit of each at time 0
AllVisited ==
    [u \in Users |->
        [room |-> GlobalRoom, user |-> u, last_active |-> 0, is_active |-> TRUE]]

\* the log after Backlog messages sent to the Global Study Deck at time 0
BacklogLog ==
    [i \in 1..Backlog |->
        [id |-> i, room |-> GlobalRoom, user |-> 1, content |-> "hi", timestamp |-> 0]]

\* the chat: every user has visited the room; the log is empty or holds a backlog
InitChat ==
    /\ now = 0
    /\ rooms = {GlobalRoom}
    /\ participants = AllVisited
    /\ messages \in {<< >>, BacklogLog}
    /\ InitStores

\* the number of messages up to which the chat is explored
ChatCap == IF Len(messages) >= Backlog THEN Backlog + MaxMsgs ELSE MaxMsgs

\* the watermarks a client polls with: none, early ones and the latest ids
Watermarks == {0, 1, Len(messages) - 1, Len(messages)} \cap Nat

NextChat ==
    \/ \E u \in Users, r \in RoomIds, c \in Contents :
           SendMessage(u, <<r>>, <<c>>, ChatCap)
    \/ \E u \in Users : SendMessage(u, << >>, << >>, ChatCap)
    \/ \E u \in Users, r \in RoomIds, w \in Watermarks : GetRoomData(u, r, w, {0})
    \/ Tick(60)

SpecChat == InitChat /\ [][NextChat]_vars

\* the response has been sent; the server takes the next request
Respond ==
    /\ resp # NoResponse
    /\ resp' = NoResponse
    /\ UNCHANGED <<now, rooms, participants, messages, blocks, nextBlockId, friendships, inflight,
                   communities, memberships, client>>

\* no response is pending: the server is free to take a request
Idle == resp = NoResponse

\* the planner and the schedule store, one request at a time
NextPlanner ==
    \/ Idle /\ \E u \in Users, body \in Bodies : NavigatorCommandBadBody(u, body)
    \/ Idle /\ \E u \in Users, body \in Bodies : NavigatorCommandEmpty(u, body)
    \/ Idle /\ \E u \in Users, body \in Bodies : NavigatorCommandRaises(u, body)
    \/ Idle /\ \E u \in Users, body \in Bodies, text \in ResponseTexts :
                   NavigatorCommand(u, body, text)
    \/ Idle /\ \E u \in Users, id \in 1..(MaxBlocks + 1) : DeleteStudyBlock(u, id)
    \/ Respond

SpecPlanner == Init /\ [][NextPlanner]_vars

\* the user_id fields a request may carry: none, the users' ids, an id no user
\* has and a text that is no number
UserIdFields == {<< >>, <<<<"1">>>>, <<<<"2">>>>, <<<<"3">>>>, <<<<"0">>>>, <<<<"a", "b">>>>}

NextFriends ==
    \/ \E u \in Befrienders, f \in UserIdFields : AddFriend(u, f)
    \/ \E u \in Befrienders, f \in UserIdFields : AddFriendNotFound(u, f)
    \/ \E u \in Befrienders, f \in UserIdFields : AddFriendBadId(u, f)
    \/ \E u \in Befrienders : GetFriends(u)
    \/ \E u \in Befrienders, query \in Queries : SearchUsers(u, query)

SpecFriends == Init /\ [][NextFriends]_vars

---------------------------------------------------------------------------
(* Properties *)

IsPoll(r) == r.op = "get_room_data" /\ r.status = 200

\* C1: every crew entry of a poll of room R is a participant row of R that is
\* active and whose last_active, as the roster query read it, is not older than
\* the freshness window at the query's clock read
C1_RosterFresh ==
    IsPoll(resp) =>
        \A k \in DOMAIN resp.crew :
            LET e == resp.crew[k]
            IN  /\ e.pid \in DOMAIN participants
                /\ participants[e.pid].room = resp.room_id
                /\ participants[e.pid].user = e.id
                /\ participants[e.pid].is_active
                /\ e.last_active <= participants[e.pid].last_active
                /\ e.last_active >= resp.threshold_at - 300
                /\ ~(resp.threshold_at - e.last_active > 300)

\* a poll answered with a crew while a participant of the room has aged out of it
C1_Witness ==
    /\ IsPoll(resp)
    /\ resp.crew # << >>
    /\ \E i \in DOMAIN participants :
           /\ participants[i].room = resp.room_id
           /\ participants[i].last_active < resp.threshold_at - 300
           /\ \A k \in DOMAIN resp.crew : resp.crew[k].pid # i

\* C2: the status of every crew entry is "studying" when the entry's clock read
\* is less than 60 seconds after the row's last_active and "idle" otherwise;
\* the row holds no status of its own
C2_StatusDerived ==
    IsPoll(resp) =>
        \A k \in DOMAIN resp.crew :
            LET e    == resp.crew[k]
                diff == e.at - e.last_active
            IN  /\ diff >= 0
                /\ e.status \in {"studying", "idle"}
                /\ e.status = "studying" <=> diff < 60
                /\ diff = 10 => e.status = "studying"
                /\ diff \in {60, 90} => e.status = "idle"
                /\ "status" \notin DOMAIN participants[e.pid]

\* one poll that lists a participant active 10 seconds ago and one active exactly
\* 60 seconds ago
C2_Witness ==
    /\ IsPoll(resp)
    /\ \E j, k \in DOMAIN resp.crew :
           /\ resp.crew[j].at - resp.crew[j].last_active = 10
           /\ resp.crew[j].status = "studying"
           /\ resp.crew[k].at - resp.crew[k].last_active = 60
           /\ resp.crew[k].status = "idle"

\* C3: a poll that follows a poll of the same room with the same last_msg_id,
\* no message posted in between, returns the same message list: the same ids,
\* users, contents and timestamps in the same order
C3_PollIdempotent ==
    [][(/\ IsPoll(resp)
        /\ IsPoll(resp')
        /\ resp'.room_id = resp.room_id
        /\ resp'.last_msg_id = resp.last_msg_id
        /\ messages' = messages)
       => resp'.messages = resp.messages]_vars

\* a repeated poll that returned messages and moved the caller's presence
C3_Witness ==
    /\ IsPoll(resp)
    /\ resp.repeated
    /\ resp.messages # << >>
    /\ \E i \in DOMAIN participants :
           /\ participants[i].user = resp.user
           /\ participants[i].room = resp.room_id
           /\ participants[i].last_active = 60

\* the ids of the messages of room r newer than the watermark
Pending(r, last_msg_id) ==
    {i \in DOMAIN messages : messages[i].room = r /\ messages[i].id > last_msg_id}

\* C4: a poll of room R with watermark sinceId returns messages of R with
\* id > sinceId only, each once and as stored, in ascending timestamp order; all
\* of them when there are at most 50, and otherwise 50 of them, none later than a
\* message left out
C4_PollDelta ==
    IsPoll(resp) =>
        LET got     == resp.messages
            pending == Pending(resp.room_id, resp.last_msg_id)
            gotIds  == {got[k].id : k \in DOMAIN got}
        IN  /\ gotIds \subseteq pending
            /\ \A j, k \in DOMAIN got : j < k => got[j].id # got[k].id
            /\ \A k \in DOMAIN got :
                   /\ got[k].content = messages[got[k].id].content
                   /\ got[k].user = Username(messages[got[k].id].user)
            /\ \A j, k \in DOMAIN got :
                   j < k => messages[got[j].id].timestamp <= messages[got[k].id].timestamp
            /\ Cardinality(pending) <= 50 => gotIds = pending
            /\ Cardinality(pending) > 50 => Len(got) = 50
            /\ \A i \in pending \ gotIds : \A k \in DOMAIN got :
                   messages[got[k].id].timestamp <= messages[i].timestamp

\* a poll with more than 50 messages pending, of two timestamps
C4_Witness ==
    /\ IsPoll(resp)
    /\ Cardinality(Pending(resp.room_id, resp.last_msg_id)) > 50
    /\ Len(resp.messages) = 50
    /\ \E i \in Pending(resp.room_id, resp.last_msg_id) : messages[i].timestamp = 60

IsPlan(r) == r.op = "navigator_command" /\ "text" \in DOMAIN r

\* block b holds the values of item
Matches(b, item) ==
    /\ b.title = item["title"]
    /\ b.start_hour = item["startHour"]
    /\ b.duration = item["duration"]
    /\ b.block_type = item["type"]
    /\ b.day_index = IF "dayIndex" \in DOMAIN item THEN <<item["dayIndex"]>> ELSE << >>

\* C5: a successful command whose response parsed to n items leaves every earlier
\* block in place and adds exactly n blocks, all owned by the caller, the k-th
\* with the k-th item's title, dayIndex, startHour, duration and type; the single
\* item {Exam, 4, 14, 2, fixed} adds exactly one block with those values
C5_BlocksFromItems ==
    [][(IsPlan(resp') /\ resp'.status = 200) =>
          LET items == resp'.schedule
              new   == blocks' \ blocks
          IN  /\ blocks \subseteq blocks'
              /\ Cardinality(new) = Len(items)
              /\ \A b \in new : b.user = resp'.user
              /\ \A k \in DOMAIN items :
                     \E b \in new : b.id = nextBlockId + k - 1 /\ Matches(b, items[k])
              /\ resp'.text = <<"[", "E", "]">> =>
                     \E b \in new :
                         /\ new = {b}
                         /\ b.title = "Exam"
                         /\ b.day_index = <<4>>
                         /\ b.start_hour = 14
                         /\ b.duration = 2
                         /\ b.block_type = "fixed"]_vars

\* the response [Exam item] has been planned and its block is stored
C5_Witness ==
    /\ IsPlan(resp)
    /\ resp.status = 200
    /\ resp.text = <<"[", "E", "]">>
    /\ \E b \in blocks :
           /\ b.id = nextBlockId - 1
           /\ b.user = resp.user
           /\ b.day_index = <<4>>
           /\ b.start_hour = 14

\* the wrappings with a leading and a trailing fence
FullFences == {FencedJson, FencedPlain, FencedTight}

\* C6: a response that is a JSON array between a leading fence (with or without
\* the json tag) and a trailing fence has the outcome of the bare array: the same
\* status, the same schedule, the same blocks stored
C6_FencedAsBare ==
    \A w \in FullFences : \A a \in ValidArrays \cup InvalidArrays :
        (IsPlan(resp) /\ resp.text = Wrap(w, ArrayText(a))) =>
            LET bare == Plan(resp.user, ArrayText(a), now)
            IN  /\ resp.status = IF bare.error = "" THEN 200 ELSE 500
                /\ bare.error # "" => resp.error = bare.error
                /\ bare.error = "" =>
                       /\ resp.schedule = bare.schedule
                       /\ BulkCreate(bare.new_blocks, nextBlockId - Len(bare.new_blocks))
                              \subseteq blocks
                /\ a \in ValidArrays =>
                       /\ resp.status = 200
                       /\ resp.schedule = [k \in DOMAIN a |-> ObjectOf(a[k])]

\* a json-tagged fenced array of two items has been planned and stored
C6_Witness ==
    /\ IsPlan(resp)
    /\ resp.text = Wrap(FencedJson, ArrayText(<<"E", "D">>))
    /\ resp.status = 200
    /\ Cardinality({b \in blocks : b.user = resp.user}) >= 2

\* responses that are no JSON, bare and fenced
NotJson == {Wrap(w, m) : w \in {Bare, FencedJson}, m \in MalformedTexts}

\* C7: a command whose response is not valid JSON stores no block and answers
\* with an error body and status 500
C7_MalformedStoresNothing ==
    [][(IsPlan(resp') /\ resp'.text \in NotJson) =>
          /\ blocks' = blocks
          /\ nextBlockId' = nextBlockId
          /\ resp'.status = 500
          /\ "error" \in DOMAIN resp'
          /\ "schedule" \notin DOMAIN resp']_vars

\* a malformed response has been answered while blocks are stored
C7_Witness ==
    /\ IsPlan(resp)
    /\ resp.text \in NotJson
    /\ resp.status = 500
    /\ blocks # {}

\* the literals of the items that lack a required key
Incomplete == {"T", "H", "U", "Y"}

\* C8: a command whose response is an array with an item that lacks title,
\* startHour, duration or type, at any position, fails with an error and stores
\* none of the array's items
C8_AllOrNothing ==
    [][\A w \in {Bare, FencedJson} : \A a \in InvalidArrays :
          (/\ IsPlan(resp')
           /\ resp'.text = Wrap(w, ArrayText(a))
           /\ \E k \in DOMAIN a : a[k] \in Incomplete)
          => /\ resp'.status = 500
             /\ "error" \in DOMAIN resp'
             /\ blocks' = blocks]_vars

\* an array whose second item lacks its duration has been refused
C8_Witness ==
    /\ IsPlan(resp)
    /\ resp.text = ArrayText(<<"E", "U">>)
    /\ resp.status = 500

IsDelete(r) == r.op = "delete_study_block"

\* C9: a delete of a block the caller does not own, or of no block, answers 404
\* and changes no block; a delete by the owner removes that block alone; no
\* block disappears but by its owner's delete
C9_DeleteOwnerOnly ==
    [][/\ IsDelete(resp') =>
              LET mine == {b \in blocks : b.id = resp'.block_id /\ b.user = resp'.user}
              IN  IF mine = {}
                  THEN resp'.status = 404 /\ blocks' = blocks
                  ELSE resp'.status = 200 /\ blocks' = blocks \ mine
       /\ \A b \in blocks \ blocks' :
              /\ IsDelete(resp')
              /\ resp'.user = b.user
              /\ resp'.block_id = b.id]_vars

\* a delete of another user's block has been refused
C9_Witness ==
    /\ IsDelete(resp)
    /\ resp.status = 404
    /\ \E b \in blocks : b.id = resp.block_id /\ b.user # resp.user

IsAdd(r) == r.op = "add_friend"

\* C10: whatever the number of add_friend calls, no pair of users has more than
\* one friendship row, and after an add of a pair of users, the first or a
\* repeated one, the pair has exactly one row and the call has answered ok
C10_AddIdempotent ==
    /\ \A u, f \in Accounts : CopiesIn(<<u, f>>, friendships) <= 1
    /\ (IsAdd(resp) /\ Resolves(resp.field)) =>
           /\ resp.status = 200
           /\ CopiesIn(<<resp.user, resp.user_id>>, friendships) = 1

\* an add of a pair that was friends already has been answered
C10_Witness ==
    /\ IsAdd(resp)
    /\ resp.status = 200
    /\ ~resp.created
    /\ CopiesIn(<<resp.user, resp.user_id>>, friendships) = 1

\* the participant rows of user u in room r
RowsOf(ps, r, u) == {i \in DOMAIN ps : ps[i].room = r /\ ps[i].user = u}

\* the step is a request answered with a poll's response
PollStep == IsPoll(resp') /\ (resp' # resp \/ participants' # participants)

\* the step is a request answered with the study room page
VisitStep == resp'.op = "study_room" /\ (resp' # resp \/ participants' # participants)

\* C11 as claimed: after a poll by user U for room R a participant row (R, U)
\* exists, active and with last_active at the time of the poll, whether or not U
\* had a row before
C11_PollCreates ==
    IsPoll(resp) =>
        \E i \in RowsOf(participants, resp.room_id, resp.user) :
            /\ participants[i].is_active
            /\ participants[i].last_active = resp.touched_at

\* C11 amended: a poll by U for R sets is_active and sets last_active to the
\* poll's first clock read on the rows (R, U) that exist, leaves every other row
\* as it is and creates no row; a study_room visit by U leaves a row (Global
\* Study Deck, U), active and with last_active at the time of the visit,
\* whether or not U had one
C11_PollUpdates ==
    [][/\ PollStep =>
              /\ resp'.touched_at = now
              /\ DOMAIN participants' = DOMAIN participants
              /\ \A i \in DOMAIN participants :
                     participants'[i] =
                         IF i \in RowsOf(participants, resp'.room_id, resp'.user)
                         THEN [participants[i] EXCEPT !.last_active = now,
                                                      !.is_active = TRUE]
                         ELSE participants[i]
       /\ VisitStep =>
              \E i \in RowsOf(participants', GlobalRoom, resp'.user) :
                  /\ participants'[i].is_active
                  /\ participants'[i].last_active = now
                  /\ \A j \in DOMAIN participants : participants'[j].room = participants[j].room
                                                    /\ participants'[j].user = participants[j].user]_vars

\* a poll has moved the caller's row to a later time than another user's row
C11_Witness ==
    /\ IsPoll(resp)
    /\ resp.touched_at > 0
    /\ \E i \in RowsOf(participants, resp.room_id, resp.user) :
           /\ participants[i].last_active = resp.touched_at
           /\ \E j \in DOMAIN participants :
                  /\ participants[j].user # resp.user
                  /\ participants[j].last_active < resp.touched_at

---------------------------------------------------------------------------
(* study_room and send_message step by step: each database statement of a  *)
(* request is one step, and the steps of the requests of two workers        *)
(* interleave.  The Global Study Deck exists.                               *)

\* study_room, line 28, the get of get_or_create: the caller's row is looked up
VisitLook(s, u) ==
    LET rows == RowsOf(participants, GlobalRoom, u)
    IN  /\ inflight[s] = NoRequest
        /\ GlobalRoom \in rooms
        /\ IF Cardinality(rows) > 1
           \* get() finds several rows: MultipleObjectsReturned, which is not caught
           THEN /\ resp' = [op |-> "study_room", status |-> 500, user |-> u,
                            room_id |-> GlobalRoom, touched_at |-> now]
                /\ inflight' = inflight
           ELSE /\ resp' = resp
                /\ inflight' =
                     [inflight EXCEPT ![s] =
                         IF rows = {}
                         THEN [pc |-> "create", op |-> "study_room", user |-> u]
                         ELSE [pc |-> "touch", op |-> "study_room", user |-> u,
                               row |-> CHOOSE i \in rows : TRUE]]
        /\ UNCHANGED <<now, rooms, participants, messages, blocks, nextBlockId, friendships,
                   communities, memberships, client>>

\* study_room, line 28, the create of get_or_create: no row was found, one is inserted
VisitCreate(s) ==
    /\ inflight[s].pc = "create"
    /\ inflight[s].op = "study_room"
    /\ participants' = Append(participants,
                              [room |-> GlobalRoom, user |-> inflight[s].user,
                               last_active |-> now, is_active |-> TRUE])
    /\ inflight' = [inflight EXCEPT ![s] =
                        [pc |-> "touch", op |-> "study_room", user |-> inflight[s].user,
                         row |-> Len(participants) + 1]]
    /\ UNCHANGED <<now, rooms, messages, blocks, nextBlockId, friendships, resp,
                   communities, memberships, client>>

\* study_room, lines 29-31 up to the UPDATE: the clock is read for last_active
\* (line 30, and again by auto_now as save() prepares the row)
VisitTouch(s) ==
    /\ inflight[s].pc = "touch"
    /\ inflight[s].op = "study_room"
    /\ inflight' = [inflight EXCEPT ![s] =
                        [pc |-> "save", op |-> "study_room", user |-> inflight[s].user,
                         row |-> inflight[s].row, last_active |-> now]]
    /\ UNCHANGED <<now, rooms, participants, messages, blocks, nextBlockId, friendships,
                   resp,
                   communities, memberships, client>>

\* study_room, lines 31-39: the UPDATE of save() writes the row found or created,
\* and the page is rendered
VisitSave(s) ==
    /\ inflight[s].pc = "save"
    /\ inflight[s].op = "study_room"
    /\ participants' = [participants EXCEPT ![inflight[s].row] =
                            [@ EXCEPT !.last_active = inflight[s].last_active,
                                      !.is_active = TRUE]]
    /\ resp' = [op |-> "study_room", status |-> 200, user |-> inflight[s].user,
                room_id |-> GlobalRoom, touched_at |-> inflight[s].last_active]
    /\ inflight' = [inflight EXCEPT ![s] = NoRequest]
    /\ UNCHANGED <<now, rooms, messages, blocks, nextBlockId, friendships,
                   communities, memberships, client>>

\* get_room_data, lines 44-50 up to the UPDATE: the clock is read for last_active
PollTouch(s, u, r) ==
    /\ inflight[s] = NoRequest
    /\ inflight' = [inflight EXCEPT ![s] =
                        [pc |-> "update", op |-> "get_room_data", user |-> u,
                         room |-> r, last_active |-> now]]
    /\ UNCHANGED <<now, rooms, participants, messages, blocks, nextBlockId, friendships,
                   resp,
                   communities, memberships, client>>

\* get_room_data, lines 49-88: the UPDATE writes the clock read, and the roster
\* and the messages are read
PollUpdate(s) ==
    /\ inflight[s].pc = "update"
    /\ inflight[s].op = "get_room_data"
    /\ \E lags \in [1..RosterSize(inflight[s].user, inflight[s].room,
                                   inflight[s].last_active, 0) -> {0}] :
           RoomData(inflight[s].user, inflight[s].room, 0, inflight[s].last_active,
                    0, lags)
    /\ inflight' = [inflight EXCEPT ![s] = NoRequest]

\* the Global Study Deck exists; nobody has joined it
InitVisits ==
    /\ now = 0
    /\ rooms = {GlobalRoom}
    /\ participants = << >>
    /\ messages = << >>
    /\ InitStores

NextVisits ==
    \/ \E s \in Slots, u \in Users : VisitLook(s, u)
    \/ \E s \in Slots : VisitCreate(s)
    \/ \E s \in Slots : VisitTouch(s)
    \/ \E s \in Slots : VisitSave(s)
    \/ \E s \in Slots, u \in Users : PollTouch(s, u, GlobalRoom)
    \/ \E s \in Slots : PollUpdate(s)
    \/ Tick(10)

SpecVisits == InitVisits /\ [][NextVisits]_vars

\* C12: in every reachable state, also after study_room visits of one user that
\* overlap, there is at most one participant row per (room, user) pair
C12_OneRowPerPair ==
    \A r \in RoomIds, u \in Users : Cardinality(RowsOf(participants, r, u)) <= 1

\* send_message, lines 221-225 and the clock read of create(): the request is
\* refused, or its message is built with timestamp = now (auto_now_add)
PostReceive(s, u, room_id, content) ==
    /\ inflight[s] = NoRequest
    /\ IF Accepts(room_id, content)
       THEN /\ inflight' = [inflight EXCEPT ![s] =
                               [pc |-> "insert", op |-> "send_message", user |-> u,
                                room |-> room_id[1], content |-> content[1],
                                timestamp |-> now]]
            /\ resp' = resp
       ELSE /\ inflight' = inflight
            /\ resp' = InvalidData(u, room_id, content)
    /\ UNCHANGED <<now, rooms, participants, messages, blocks, nextBlockId, friendships,
                   communities, memberships, client>>

\* send_message, lines 226-231: the INSERT, which gives the row its id, and the answer
PostInsert(s, cap) ==
    /\ inflight[s].pc = "insert"
    /\ inflight[s].op = "send_message"
    /\ Len(messages) < cap
    /\ messages' = CreateMessage(messages, inflight[s].user, inflight[s].room,
                                 inflight[s].content, inflight[s].timestamp)
    /\ resp' = PostResponse(inflight[s].user, inflight[s].room, inflight[s].content)
    /\ inflight' = [inflight EXCEPT ![s] = NoRequest]
    /\ UNCHANGED <<now, rooms, participants, blocks, nextBlockId, friendships,
                   communities, memberships, client>>

\* the room_id and content fields a send_message request may carry
RoomIdFields == {<< >>, <<0>>} \cup {<<r>> : r \in RoomIds}
ContentFields == {<< >>, <<"">>, <<"hi">>}

\* the message log under posts of two workers, polls and the clock
NextPosts ==
    \/ \E s \in Slots, u \in Users, room_id \in RoomIdFields, content \in ContentFields :
           PostReceive(s, u, room_id, content)
    \/ \E s \in Slots : PostInsert(s, MaxMsgs)
    \/ \E u \in Users : GetRoomData(u, GlobalRoom, 0, {0})
    \/ Tick(10)

SpecPosts == InitVisits /\ [][NextPosts]_vars

\* the step answers a send_message request
AnsweredPost == resp'.op = "send_message" /\ (resp' # resp \/ messages' # messages)

\* the step appends one message of the answered request's user, room and content
AppendsPost ==
    /\ Len(messages') = Len(messages) + 1
    /\ \A i \in DOMAIN messages : messages'[i] = messages[i]
    /\ messages'[Len(messages')].room = resp'.room_id[1]
    /\ messages'[Len(messages')].user = resp'.user
    /\ messages'[Len(messages')].content = resp'.content[1]

IsCommand(r) == r.op = "navigator_command"

\* C14: a navigator_command whose body has no command, or an empty one, answers
\* 400 without a call of the external model and stores no block
C14_EmptyRejected ==
    [][(/\ IsCommand(resp')
        /\ IsObject(resp'.body)
        /\ (resp'.body.command = << >> \/ resp'.body.command = <<"">>))
       => /\ resp'.status = 400
          /\ resp'.external_calls = 0
          /\ "error" \in DOMAIN resp'
          /\ blocks' = blocks
          /\ nextBlockId' = nextBlockId]_vars

\* an empty command has been refused while blocks are stored
C14_Witness ==
    /\ IsCommand(resp)
    /\ resp.body = EmptyCommandBody
    /\ resp.status = 400
    /\ blocks # {}

\* the responses that are JSON but no array of objects: a single object, a
\* number, the empty object, an array with a number in it
NotObjectArrays ==
    {Wrap(w, p) : w \in {Bare, FencedJson}, p \in {<<"E">>, <<"5">>, <<"O">>}}
        \cup {Wrap(w, ArrayText(a)) : w \in {Bare, FencedJson},
                  a \in {x \in InvalidArrays : \E k \in DOMAIN x : x[k] = "5"}}

\* the responses that are arrays the storage layer rejects
NotStorable == {Wrap(w, ArrayText(a)) : w \in {Bare, FencedJson}, a \in BadDateArrays}

\* the command whose answer is r failed: its body could not be read, the external
\* call raised, or the response was no JSON, no array of objects, or not storable
FailureIn(r) ==
    \/ ~IsObject(r.body)
    \/ r.external_calls = 1 /\ "text" \notin DOMAIN r
    \/ "text" \in DOMAIN r /\ r.text \in NotJson \cup NotObjectArrays \cup NotStorable

\* C15: every failure inside navigator_command (unparseable body, exception of
\* the external service, response that is no JSON array of objects, row the
\* storage layer rejects) is answered with a JSON error body and a failure
\* status, and no block of the command is stored
C15_FailuresCaught ==
    [][(IsCommand(resp') /\ FailureIn(resp'))
       => /\ resp'.status \in {400, 500}
          /\ "error" \in DOMAIN resp'
          /\ blocks' = blocks
          /\ nextBlockId' = nextBlockId]_vars

---------------------------------------------------------------------------
(* The schedule store as the planner page lists it *)

\* the text of n in w digits, zero-padded
RECURSIVE Padded(_, _)
Padded(n, w) ==
    IF w = 0 THEN << >> ELSE Append(Padded(n \div 10, w - 1), Digits[(n % 10) + 1])

\* b.date.strftime('%Y-%m-%d') if b.date else None
FormatDate(field) ==
    IF field = << >> THEN << >>
    ELSE <<Padded(field[1].year, 4) \o <<"-">> \o Padded(field[1].month, 2)
               \o <<"-">> \o Padded(field[1].day, 2)>>

\* navigator_view: the caller's blocks as the page gets them
NavigatorView(u) ==
    /\ resp' = [op |-> "navigator_view", status |-> 200, user |-> u,
                schedule_data |->
                    {[id        |-> b.id,
                      title     |-> b.title,
                      dayIndex  |-> b.day_index,
                      date      |-> FormatDate(b.date),
                      startDate |-> FormatDate(b.start_date),
                      endDate   |-> FormatDate(b.end_date),
                      startHour |-> b.start_hour,
                      duration  |-> b.duration,
                      type      |-> b.block_type] : b \in {x \in blocks : x.user = u}}]
    /\ UNCHANGED <<now, rooms, participants, messages, blocks, nextBlockId, friendships, inflight,
                   communities, memberships, client>>

\* the items the external model is taken to return here: complete ones, with a
\* weekday, with a date, with neither, with a date that names no day, and with
\* hour and duration out of range
StoreTexts ==
    {ArrayText(a) : a \in UNION {[1..n -> {"E", "D", "N", "F", "R"}] : n \in 1..MaxItems}}

NextStore ==
    \/ Idle /\ \E u \in Users, text \in StoreTexts : NavigatorCommand(u, CommandBody, text)
    \/ Idle /\ \E u \in Users, id \in 1..(MaxBlocks + 1) : DeleteStudyBlock(u, id)
    \/ Idle /\ \E u \in Users : NavigatorView(u)
    \/ Respond

SpecStore == Init /\ [][NextStore]_vars

\* C16: after any sequence of planner commands and deletes, every block the
\* list of an owner returns has its date or its dayIndex set, a startHour
\* from 0 to 23.5 and a duration above 0
C16_BlocksWellFormed ==
    resp.op = "navigator_view" =>
        \A e \in resp.schedule_data :
            /\ e.date # << >> \/ e.dayIndex # << >>
            /\ e.startHour >= 0
            /\ 2 * e.startHour <= 47
            /\ e.duration > 0

C18_AppendOnly ==
    [][/\ \A i \in DOMAIN messages :
              i \in DOMAIN messages' /\ messages'[i] = messages[i]
       /\ (AnsweredPost /\ resp'.status = 200) =>
              /\ Len(messages') = Len(messages) + 1
              /\ \A i \in DOMAIN messages : messages'[Len(messages')].id > messages[i].id
       /\ \A i, j \in DOMAIN messages' :
              messages'[i].id < messages'[j].id =>
                  messages'[i].timestamp <= messages'[j].timestamp]_vars

\* C19: an add_friend whose user_id is absent or is not the id of a user
\* answers 404 and creates no friendship row
C19_UnknownIsNotFound ==
    [][(IsAdd(resp') /\ ~Resolves(resp'.field))
       => /\ resp'.status = 404
          /\ friendships' = friendships]_vars

\* C20: an accepted add by A of B leaves a row A -> B and changes the rows of no
\* other pair, so never those of B -> A: the friends list of B and B's is_friend
\* for A are as before; get_friends of U answers with exactly the targets of
\* the rows from U, each with status "offline"
C20_Directed ==
    [][/\ (IsAdd(resp') /\ resp'.status = 200) =>
              LET a == resp'.user
                  b == resp'.user_id
              IN  /\ EdgeCount(friendships', a, b) >= 1
                  /\ \A x, y \in Accounts :
                         <<x, y>> # <<a, b>> =>
                             EdgeCount(friendships', x, y) = EdgeCount(friendships, x, y)
                  /\ a # b =>
                         /\ EdgeCount(friendships', b, a) = EdgeCount(friendships, b, a)
                         /\ FriendsOf(friendships', b) = FriendsOf(friendships, b)
                         /\ IsFriend(friendships', b, a) = IsFriend(friendships, b, a)
       /\ resp'.op = "get_friends" =>
              /\ \A e \in BagToSet(resp'.friends) :
                     /\ e.status = "offline"
                     /\ e.id \in Accounts
                     /\ e.username = Username(e.id)
              /\ \A f \in Accounts :
                     CopiesIn([id |-> f, username |-> Username(f), status |-> "offline"],
                              resp'.friends)
                         = EdgeCount(friendships', resp'.user, f)]_vars

\* A has added B while B has not added A
C20_Witness ==
    /\ IsAdd(resp)
    /\ resp.status = 200
    /\ resp.user # resp.user_id
    /\ EdgeCount(friendships, resp.user, resp.user_id) = 1
    /\ EdgeCount(friendships, resp.user_id, resp.user) = 0
    /\ \E c \in Accounts : EdgeCount(friendships, resp.user_id, c) = 1

\* the text a search looks for: empty when the q parameter is absent
QueryText(r) == IF r.query = << >> THEN << >> ELSE r.query[1]

\* C21: a search by U returns at most 10 users, each once, never U, only users
\* whose username contains q whatever the case of the letters (for "oB" nobody
\* but Bob, for "A" no Bob), each with is_friend true exactly when a row from U
\* to that user exists; an absent or empty q returns the empty list
C21_SearchResults ==
    resp.op = "search_users" =>
        /\ Cardinality(resp.users) <= 10
        /\ Cardinality({e.id : e \in resp.users}) = Cardinality(resp.users)
        /\ \A e \in resp.users :
               /\ e.id \in Accounts
               /\ e.id # resp.user
               /\ e.username = Usernames[e.id]
               /\ \E i, j \in DOMAIN e.username :
                      Lower(SubSeq(e.username, i, j)) = Lower(QueryText(resp))
               /\ resp.query = <<<<"o", "B">>>> => e.id = 2
               /\ resp.query = <<<<"A">>>> => e.id # 2
               /\ e.is_friend <=> CopiesIn(<<resp.user, e.id>>, friendships) > 0
        /\ QueryText(resp) = << >> => resp.users = {}

\* a search that more than 10 users match has returned 10 of them, a friend
\* and a stranger among them
C21_Witness ==
    /\ resp.op = "search_users"
    /\ resp.user = 2
    /\ resp.query = <<<<"a">>>>
    /\ Cardinality(resp.users) = 10
    /\ \E d, e \in resp.users : d.is_friend /\ ~e.is_friend

\* C22: no step removes a participant row or moves it to another room or user;
\* a poll of room R lists no user of whom every row in R has a last_active more
\* than 5 minutes before the roster's clock read, though the rows exist; and a
\* poll by a user who has a row in R, however old, lists that user
C22_AgesOut ==
    [][/\ \A i \in DOMAIN participants :
              /\ i \in DOMAIN participants'
              /\ participants'[i].room = participants[i].room
              /\ participants'[i].user = participants[i].user
       /\ PollStep =>
              /\ \A i \in DOMAIN participants' :
                     (/\ participants'[i].room = resp'.room_id
                      /\ resp'.threshold_at - participants'[i].last_active > 300)
                     => \A k \in DOMAIN resp'.crew : resp'.crew[k].pid # i
              /\ RowsOf(participants, resp'.room_id, resp'.user) # {} =>
                     \E k \in DOMAIN resp'.crew : resp'.crew[k].id = resp'.user]_vars

\* five minutes after the start a poll lists its caller alone, while the row of
\* another user, last active at the start, is still there
C22_Witness ==
    /\ IsPoll(resp)
    /\ resp.touched_at >= 300
    /\ Len(resp.crew) = 1
    /\ resp.crew[1].id = resp.user
    /\ \E i \in DOMAIN participants :
           /\ participants[i].room = resp.room_id
           /\ participants[i].user # resp.user
           /\ participants[i].is_active
           /\ participants[i].last_active = 0

\* C23: no step, of a poll or of a visit, of requests in turn or of requests
\* that overlap, lowers the last_active of a participant row
C23_LastActiveMonotone ==
    [][\A i \in DOMAIN participants :
           /\ i \in DOMAIN participants'
           /\ participants'[i].last_active >= participants[i].last_active]_vars

\* C24: in every step, every stored block either stays with all its fields as
\* they were (owner, title, day_index, dates, start_hour, duration, block_type)
\* or is gone, and a block goes only by a delete of that block by its owner
C24_BlocksImmutable ==
    [][\A b \in blocks :
           \/ b \in blocks'
           \/ /\ ~\E c \in blocks' : c.id = b.id
              /\ IsDelete(resp')
              /\ resp'.status = 200
              /\ resp'.user = b.user
              /\ resp'.block_id = b.id]_vars

\* an owner's delete has been answered while an older block of another user,
\* stored before a later command, is still as it was planned
C24_Witness ==
    /\ IsDelete(resp)
    /\ resp.status = 200
    /\ resp.block_id = 2
    /\ \E b \in blocks :
           /\ b.id = 1
           /\ b.user # resp.user
           /\ b.title = "Exam"
           /\ b.day_index = <<4>>
           /\ b.start_hour = 14
           /\ b.duration = 2
           /\ b.block_type = "fixed"

\* the blocks of user u in the set bs that hold the values of item
Holding(bs, u, item) == {b \in bs : b.user = u /\ Matches(b, item)}

\* C29: a successful command by U leaves every stored block, of U and of the
\* others, in place and as it was, and every block it adds is owned by U; for
\* every item of the response U has as many more blocks with the item's values
\* as the response has such items, whatever blocks U had: the same response
\* twice stores its blocks twice
C29_OnlyAdds ==
    [][(IsPlan(resp') /\ resp'.status = 200) =>
          LET items == resp'.schedule
          IN  /\ blocks \subseteq blocks'
              /\ \A b \in blocks' \ blocks : b.user = resp'.user
              /\ \A k \in DOMAIN items :
                     Cardinality(Holding(blocks', resp'.user, items[k]))
                         = Cardinality(Holding(blocks, resp'.user, items[k]))
                               + Cardinality({j \in DOMAIN items : items[j] = items[k]})]_vars

\* the same response has been planned twice for one user, who has its block twice
C29_Witness ==
    /\ IsPlan(resp)
    /\ resp.status = 200
    /\ resp.text = <<"[", "E", "]">>
    /\ Cardinality(Holding(blocks, resp.user, ExamItem)) = 2

---------------------------------------------------------------------------
(* Requests with and without a session *)

\* request.user of a request without a session (AnonymousUser, which has no id)
AnonymousUser == 0

\* the views urlpatterns routes to
Routes ==
    {"study_room", "navigator_view", "navigator_command", "delete_study_block",
     "get_room_data", "send_message", "search_users", "add_friend", "get_friends"}

\* a module that guards its pages but not its JSON endpoints
LoginRequiredPages == {"study_room", "navigator_view"}

\* the views decorated with @login_required
LoginRequired ==
    {"study_room", "get_room_data", "navigator_view", "navigator_command",
     "delete_study_block", "send_message", "search_users", "add_friend", "get_friends"}

\* the view runs, with request.user = u
Dispatch(view, u) ==
    \/ view = "study_room" /\ StudyRoom(u)
    \/ view = "get_room_data" /\ GetRoomData(u, GlobalRoom, 0, {0})
    \/ view = "send_message" /\ SendMessage(u, <<GlobalRoom>>, <<"hi">>, MaxMsgs)
    \/ view = "navigator_view" /\ NavigatorView(u)
    \/ view = "navigator_command"
           /\ NavigatorCommand(u, CommandBody, ArrayText(<<"E">>))
    \/ view = "delete_study_block" /\ \E id \in 1..MaxBlocks : DeleteStudyBlock(u, id)
    \/ view = "search_users" /\ SearchUsers(u, <<<<"a">>>>)
    \/ view = "add_friend" /\ AddFriend(u, <<<<"3">>>>)
    \/ view = "get_friends" /\ GetFriends(u)

\* a request for a view: session is <<u>> when user u is logged in and << >>
\* when there is no session; login_required answers a request without a
\* session with a redirect to the login page, and the view does not run
Request(view, session) ==
    IF session = << >> /\ view \in LoginRequired
    THEN /\ resp' = [op |-> view, status |-> 302, user |-> AnonymousUser,
                     location |-> "login"]
         /\ UNCHANGED <<now, rooms, participants, messages, blocks, nextBlockId,
                        friendships, inflight,
                   communities, memberships, client>>
    ELSE Dispatch(view, IF session = << >> THEN AnonymousUser ELSE session[1])

NextAuth ==
    \/ Idle /\ \E view \in Routes, u \in Users : Request(view, <<u>>)
    \/ Idle /\ \E view \in Routes : Request(view, << >>)
    \/ Respond

SpecAuth == Init /\ [][NextAuth]_vars

\* the keys under which a response carries participants, messages, blocks,
\* users or friends
DataKeys == {"crew", "messages", "schedule", "schedule_data", "users", "friends"}

\* C25: a request without a session, for whichever view of the module, changes
\* no room, participant, message, block or friendship, and its response is a
\* redirect that carries none of them
C25_LoginRequired ==
    [][(resp' # resp /\ resp'.op \in Routes /\ resp'.user = AnonymousUser)
       => /\ rooms' = rooms
          /\ participants' = participants
          /\ messages' = messages
          /\ blocks' = blocks
          /\ friendships' = friendships
          /\ resp'.status = 302
          /\ DOMAIN resp' \cap DataKeys = {}]_vars

\* a poll without a session has been turned away while the room has a
\* participant and a message and blocks and friendships are stored
C25_Witness ==
    /\ resp.op = "get_room_data"
    /\ resp.user = AnonymousUser
    /\ resp.status = 302
    /\ participants # << >>
    /\ messages # << >>
    /\ blocks # {}
    /\ friendships # EmptyBag

---------------------------------------------------------------------------
(* Communities (src/communities/views.py, forms.py, models.py): a super      *)
(* community is created with its first sub-community.  Every ORM call is its *)
(* own transaction: the view opens none.                                     *)

\* the titles a form may carry
Titles ==
    {<<"M", "a", "t", "h">>, <<"m", "a", "t", "h">>, <<"C", "h", "e", "s", "s">>,
     <<"A", "r", "t", " ", "L", "a", "b">>}

\* slugify(title), for titles of letters and blanks: small letters, a hyphen for
\* a blank
Slugify(title) ==
    [i \in DOMAIN title |-> IF title[i] = " " THEN "-" ELSE Lower(title)[i]]

\* the forms a create_community request may post
Forms ==
    [community_type : {"super", "sub"},
     title : Titles,
     description : {"about"},
     parent : {<< >>, <<1>>, <<2>>},
     sub_title : Titles \cup {<< >>},
     sub_description : {"", "about"}]

\* form.is_valid(): the fields' own checks, the check that no community has the
\* title (the model's unique=True), and CommunityForm.clean
IsValid(form) ==
    /\ form.description # ""
    /\ form.parent # << >> => form.parent[1] \in DOMAIN communities
    /\ \A i \in DOMAIN communities : communities[i].title # form.title
    /\ form.community_type = "sub" => form.parent # << >>
    /\ form.community_type = "super" =>
           form.sub_title # << >> /\ form.sub_description # ""

\* filter(title__iexact=title, parent=parent).exists()
TitleTaken(cs, title, parent) ==
    \E i \in DOMAIN cs : Lower(cs[i].title) = Lower(title) /\ cs[i].parent = parent

\* the INSERT of a community is accepted: title and slug are unique
Insertable(cs, title) ==
    \A i \in DOMAIN cs : cs[i].title # title /\ cs[i].slug # Slugify(title)

\* Community.objects.create(title=..., parent=..., is_parent=...): the rows after it
CreateRow(cs, title, parent, is_parent) ==
    Append(cs, [title |-> title, slug |-> Slugify(title), parent |-> parent,
                is_parent |-> is_parent])

\* the answer of create_community to a posted form
Answer(u, form, success, errors) ==
    [op |-> "create_community", status |-> 200, user |-> u, form |-> form,
     success |-> success, errors |-> errors]

\* create_community, a valid form of type super: the duplicate check, then the
\* parent, the creator's membership, the sub-community and the membership in
\* it, each written as its statement runs; an exception ends the writes and is
\* answered with an error
CreateSuper(u, form) ==
    LET withSuper == CreateRow(communities, form.title, << >>, TRUE)
        super_id  == Len(withSuper)
    IN  IF TitleTaken(communities, form.title, << >>)
        THEN /\ resp' = Answer(u, form, FALSE, "title")
             /\ UNCHANGED <<communities, memberships>>
        ELSE IF ~Insertable(communities, form.title)
        THEN /\ resp' = Answer(u, form, FALSE, "__all__")
             /\ UNCHANGED <<communities, memberships>>
        ELSE IF ~Insertable(withSuper, form.sub_title)
        THEN /\ communities' = withSuper
             /\ memberships' = memberships \cup {<<u, super_id>>}
             /\ resp' = Answer(u, form, FALSE, "__all__")
        ELSE /\ communities' = CreateRow(withSuper, form.sub_title, <<super_id>>, FALSE)
             /\ memberships' = memberships \cup {<<u, super_id>>, <<u, super_id + 1>>}
             /\ resp' = Answer(u, form, TRUE, "")

\* create_community, a valid form of type sub
CreateSub(u, form) ==
    IF TitleTaken(communities, form.title, form.parent)
    THEN /\ resp' = Answer(u, form, FALSE, "title")
         /\ UNCHANGED <<communities, memberships>>
    ELSE IF ~Insertable(communities, form.title)
    THEN /\ resp' = Answer(u, form, FALSE, "__all__")
         /\ UNCHANGED <<communities, memberships>>
    ELSE /\ communities' = CreateRow(communities, form.title, form.parent, FALSE)
         /\ memberships' = memberships \cup {<<u, Len(communities) + 1>>}
         /\ resp' = Answer(u, form, TRUE, "")

\* create_community, a POST by the logged-in user u
CreateCommunity(u, form) ==
    /\ IF ~IsValid(form)
       THEN /\ resp' = Answer(u, form, FALSE, "form")
            /\ UNCHANGED <<communities, memberships>>
       ELSE IF form.community_type = "super" THEN CreateSuper(u, form)
       ELSE CreateSub(u, form)
    /\ UNCHANGED <<now, rooms, participants, messages, blocks, nextBlockId,
                   friendships, inflight, client>>

NextCommunities ==
    \/ Idle /\ \E u \in Users, form \in Forms : CreateCommunity(u, form)
    \/ Respond

SpecCommunities == Init /\ [][NextCommunities]_vars

\* C26: after a create_community request of type super either no community is
\* new, or the parent, its first sub-community and the creator's membership in
\* both are; and every community without a parent has a sub-community
C26_SuperAllOrNothing ==
    [][/\ (resp' # resp /\ resp'.op = "create_community"
              /\ resp'.form.community_type = "super") =>
              \/ communities' = communities /\ memberships' = memberships
              \/ /\ Len(communities') = Len(communities) + 2
                 /\ communities'[Len(communities) + 1].parent = << >>
                 /\ communities'[Len(communities) + 2].parent = <<Len(communities) + 1>>
                 /\ <<resp'.user, Len(communities) + 1>> \in memberships'
                 /\ <<resp'.user, Len(communities) + 2>> \in memberships'
       /\ \A i \in DOMAIN communities' :
              communities'[i].parent = << >> =>
                  \E j \in DOMAIN communities' : communities'[j].parent = <<i>>]_vars


---------------------------------------------------------------------------
(* The chat as one page sees it: the page polls the Global Study Deck with  *)
(* the highest message id it has been sent, while two workers take posts.   *)

\* the page takes the answer to its poll: it keeps the ids it was sent and moves
\* its watermark to the highest id it has received so far
ClientReceive ==
    /\ resp.op = "get_room_data"
    /\ resp.status = 200
    /\ LET ids  == [k \in DOMAIN resp.messages |-> resp.messages[k].id]
           seen == {client.last_msg_id} \cup {ids[k] : k \in DOMAIN ids}
       IN  client' = [last_msg_id |-> CHOOSE x \in seen : \A y \in seen : y <= x,
                      received    |-> client.received \o ids]
    /\ resp' = NoResponse
    /\ UNCHANGED <<now, rooms, participants, messages, blocks, nextBlockId,
                   friendships, inflight, communities, memberships>>

\* posts of two workers, the polls of user 1's page, and the clock
NextFeed ==
    \/ \E s \in Slots, u \in Users : PostReceive(s, u, <<GlobalRoom>>, <<"hi">>)
    \/ Idle /\ \E s \in Slots : PostInsert(s, ChatCap)
    \/ Idle /\ GetRoomData(1, GlobalRoom, client.last_msg_id, {0})
    \/ ClientReceive
    \/ resp.op = "send_message" /\ Respond
    \/ Tick(10)

SpecFeed == InitChat /\ [][NextFeed]_vars

\* C27: the page receives every message of the room exactly once: no id is sent
\* to it twice, and no message of the room at or below its watermark, which its
\* later polls exclude, has been left out
C27_DeliveredOnce ==
    /\ \A i, j \in DOMAIN client.received :
           i # j => client.received[i] # client.received[j]
    /\ \A k \in DOMAIN messages :
           (messages[k].room = GlobalRoom /\ messages[k].id <= client.last_msg_id) =>
               \E i \in DOMAIN client.received : client.received[i] = messages[k].id


---------------------------------------------------------------------------
(* Two rooms.  StudyRoom.name is not unique and get_or_create is a lookup   *)
(* followed by an insert: two first visits that overlap each find no room   *)
(* and each create one.  Each visitor joins the room its own visit created. *)

\* study_room, line 25, the get of get_or_create(name="Global Study Deck")
VisitRoomLook(s, u) ==
    /\ inflight[s] = NoRequest
    /\ IF Cardinality(rooms) > 1
       \* get() finds several rooms: MultipleObjectsReturned, which is not caught
       THEN /\ resp' = [op |-> "study_room", status |-> 500, user |-> u]
            /\ inflight' = inflight
       ELSE /\ resp' = resp
            /\ inflight' =
                 [inflight EXCEPT ![s] =
                     IF rooms = {}
                     THEN [pc |-> "create_room", op |-> "study_room", user |-> u]
                     ELSE [pc |-> "join", op |-> "study_room", user |-> u,
                           room |-> CHOOSE r \in rooms : TRUE]]
    /\ UNCHANGED <<now, rooms, participants, messages, blocks, nextBlockId, friendships,
                   communities, memberships, client>>

\* study_room, line 25, the create of get_or_create: the room gets the next id
VisitRoomCreate(s) ==
    /\ inflight[s].pc = "create_room"
    /\ rooms' = rooms \cup {Cardinality(rooms) + 1}
    /\ inflight' = [inflight EXCEPT ![s] =
                        [pc |-> "join", op |-> "study_room", user |-> inflight[s].user,
                         room |-> Cardinality(rooms) + 1]]
    /\ UNCHANGED <<now, participants, messages, blocks, nextBlockId, friendships, resp,
                   communities, memberships, client>>

\* study_room, lines 28-39: the caller's participant row of the room of line 25
\* is found or created, and saved as active now
VisitJoin(s) ==
    LET u == inflight[s].user
        r == inflight[s].room
    IN  /\ inflight[s].pc = "join"
        /\ participants' =
             IF RowsOf(participants, r, u) # {}
             THEN UpdatePresence(participants, u, r, now)
             ELSE Append(participants,
                         [room |-> r, user |-> u, last_active |-> now, is_active |-> TRUE])
        /\ resp' = [op |-> "study_room", status |-> 200, user |-> u, room_id |-> r,
                    touched_at |-> now]
        /\ inflight' = [inflight EXCEPT ![s] = NoRequest]
        /\ UNCHANGED <<now, rooms, messages, blocks, nextBlockId, friendships,
                       communities, memberships, client>>

\* visits of two workers, the posts of user 1 and the polls of the rooms' pages;
\* a response is sent before the next step is taken
NextRooms ==
    \/ Idle /\ \E s \in Slots, u \in Users : VisitRoomLook(s, u)
    \/ Idle /\ \E s \in Slots : VisitRoomCreate(s)
    \/ Idle /\ \E s \in Slots : VisitJoin(s)
    \/ Idle /\ \E r \in RoomIds : SendMessage(1, <<r>>, <<"hi">>, MaxMsgs)
    \/ Idle /\ \E u \in Users, r \in RoomIds, w \in {0, 1} : GetRoomData(u, r, w, {0})
    \/ Idle /\ Tick(10)
    \/ Respond

SpecRooms == Init /\ [][NextRooms]_vars

\* C28: a poll of room B returns only messages posted to B, changes no
\* participant row but the caller's rows of B, and lists only participants of B
C28_RoomsIsolated ==
    [][PollStep =>
          /\ \A k \in DOMAIN resp'.messages :
                 \E i \in DOMAIN messages :
                     /\ messages[i].id = resp'.messages[k].id
                     /\ messages[i].room = resp'.room_id
          /\ Len(participants') = Len(participants)
          /\ \A i \in DOMAIN participants :
                 participants'[i] # participants[i] =>
                     /\ participants[i].room = resp'.room_id
                     /\ participants[i].user = resp'.user
                     /\ participants'[i].room = resp'.room_id
          /\ \A k \in DOMAIN resp'.crew :
                 \E i \in DOMAIN participants' :
                     /\ i = resp'.crew[k].pid
                     /\ participants'[i].room = resp'.room_id
                     /\ participants'[i].user = resp'.crew[k].id]_vars

\* a poll of a room is answered with a message and a crew member, while another
\* room holds a newer message and a fresh participant that the answer lacks
C28_Witness ==
    /\ IsPoll(resp)
    /\ resp.messages # << >>
    /\ resp.crew # << >>
    /\ \E i \in DOMAIN messages :
           messages[i].room # resp.room_id /\ messages[i].id > resp.last_msg_id
    /\ \E i \in DOMAIN participants :
           /\ participants[i].room # resp.room_id
           /\ participants[i].last_active = now
    /\ \E i \in DOMAIN participants :
           /\ participants[i].room = resp.room_id
           /\ participants[i].user = resp.user
           /\ participants[i].last_active = now
           /\ now > 0


\* C30: in every roster returned by get_room_data to a user U who has a
\* participant row of the room, U is listed, U's status is "studying", and
\* is_me is true for U's entries and false for every other entry
C30_CallerStudying ==
    IsPoll(resp) =>
        /\ RowsOf(participants, resp.room_id, resp.user) # {} =>
               \E k \in DOMAIN resp.crew : resp.crew[k].id = resp.user
        /\ \A k \in DOMAIN resp.crew :
               /\ resp.crew[k].is_me <=> resp.crew[k].id = resp.user
               /\ resp.crew[k].id = resp.user => resp.crew[k].status = "studying"

\* a poll, five minutes or more after the first visits, answered with a crew
\* that lists the caller as studying, the entry computed 20 seconds after the
\* presence update, and another participant as idle
C30_Witness ==
    /\ IsPoll(resp)
    /\ resp.touched_at >= 300
    /\ \E j, k \in DOMAIN resp.crew :
           /\ resp.crew[j].is_me
           /\ resp.crew[j].status = "studying"
           /\ resp.crew[j].at - resp.touched_at = 20
           /\ ~resp.crew[k].is_me
           /\ resp.crew[k].status = "idle"

=============================================================================
